---- MODULE Spec2Model ----
(***************************************************************************)
(* Model of pco_cli/src/dtypes.rs: the numeric type bridge between pco's   *)
(* NumberType, Arrow's DataType and Parquet's physical types.              *)
(*                                                                         *)
(* Value representation.  TLC integers are 32 bits wide, so integers of    *)
(* 32 and 64 bits are written in base 2^16, least significant digit first, *)
(* and the top digit carries the sign of a signed type:                    *)
(*   u32 <<lo, hi>>  = lo + 2^16 * hi,   hi \in 0 .. 65535                 *)
(*   i32 <<lo, hi>>  = lo + 2^16 * hi,   hi \in -32768 .. 32767            *)
(* and likewise with four digits for u64 / i64.  16-bit integers are plain *)
(* integers.  Floats are opaque to this file except for f16 <-> f32, so a  *)
(* float is its bit pattern: f16 an integer in 0 .. 65535, f32 two and f64 *)
(* four unsigned 16-bit words, least significant first.                    *)
(***************************************************************************)
EXTENDS Integers, Sequences, FiniteSets, TLC

\* ------------------------------------------------------------------ bounds
\* Longest buffer handed to the conversions.
MaxLen == 2

\* Number of distinct timezone strings a Timestamp descriptor may carry.
MaxTz == 1

\* ------------------------------------------------------- program constants
W16 == 65536
H16 == 32768

None == [none |-> TRUE]

Some(v) == [some |-> v]

\* pco::data_types::NumberType, as matched by from_arrow / to_arrow.
NumberTypes == {"F16", "F32", "F64", "I16", "I32", "I64", "U16", "U32", "U64"}

\* ------------------------------------------------------ Arrow descriptors
\* arrow::datatypes::DataType.  Every descriptor has the same three fields;
\* unit and tz are "-" and 0 where the variant carries none.  tz = 0 is
\* Option::None, tz = i > 0 is Some of the i-th timezone string.
TimeUnits == {"Second", "Millisecond", "Microsecond", "Nanosecond"}

Plain(tag) == [tag |-> tag, unit |-> "-", tz |-> 0]

Timestamp(unit, tz) == [tag |-> "Timestamp", unit |-> unit, tz |-> tz]

PlainTags ==
  {"Float16", "Float32", "Float64", "Int16", "Int32", "Int64",
   "UInt16", "UInt32", "UInt64"}

\* Variants of DataType that from_arrow has no arm for.
OtherTags ==
  {"List", "Struct", "Utf8", "Boolean", "Binary", "Null", "Int8", "UInt8"}

ArrowDataTypes ==
  {Plain(t) : t \in PlainTags \cup {"Date32", "Date64"} \cup OtherTags}
    \cup {Timestamp(u, z) : u \in TimeUnits, z \in 0 .. MaxTz}

\* ------------------------------------------------------------ from_arrow
Ok(v) == [ok |-> TRUE, val |-> v]

Err(fmt, arg) == [ok |-> FALSE, panicked |-> FALSE, fmt |-> fmt, arg |-> arg]

Panic(fmt, arg) == [ok |-> FALSE, panicked |-> TRUE, fmt |-> fmt, arg |-> arg]

\* Mutant: Date32 takes the arm of Date64.
from_arrow_date32_as_i64(arrow_dtype) ==
  CASE arrow_dtype.tag = "Float16" -> Ok("F16")
    [] arrow_dtype.tag = "Float32" -> Ok("F32")
    [] arrow_dtype.tag = "Float64" -> Ok("F64")
    [] arrow_dtype.tag = "Int16" -> Ok("I16")
    [] arrow_dtype.tag = "Int32" -> Ok("I32")
    [] arrow_dtype.tag = "UInt16" -> Ok("U16")
    [] arrow_dtype.tag = "UInt32" -> Ok("U32")
    [] arrow_dtype.tag = "UInt64" -> Ok("U64")
    [] arrow_dtype.tag \in {"Int64", "Timestamp", "Date32", "Date64"} -> Ok("I64")
    [] OTHER -> Err("unable to convert arrow dtype {:?} to pco", arrow_dtype)

from_arrow(arrow_dtype) ==
  CASE arrow_dtype.tag = "Float16" -> Ok("F16")
    [] arrow_dtype.tag = "Float32" -> Ok("F32")
    [] arrow_dtype.tag = "Float64" -> Ok("F64")
    [] arrow_dtype.tag = "Int16" -> Ok("I16")
    [] arrow_dtype.tag = "Int32" -> Ok("I32")
    [] arrow_dtype.tag = "Int64" -> Ok("I64")
    [] arrow_dtype.tag = "UInt16" -> Ok("U16")
    [] arrow_dtype.tag = "UInt32" -> Ok("U32")
    [] arrow_dtype.tag = "UInt64" -> Ok("U64")
    [] arrow_dtype.tag = "Timestamp" -> Ok("I64")
    [] arrow_dtype.tag = "Date32" -> Ok("I32")
    [] arrow_dtype.tag = "Date64" -> Ok("I64")
    [] OTHER -> Err("unable to convert arrow dtype {:?} to pco", arrow_dtype)

\* -------------------------------------------------------------- to_arrow
\* Mutant: the U16 arm renders Int16.
to_arrow_u16_as_int16(dtype) ==
  CASE dtype = "F16" -> Ok(Plain("Float16"))
    [] dtype = "F32" -> Ok(Plain("Float32"))
    [] dtype = "F64" -> Ok(Plain("Float64"))
    [] dtype \in {"I16", "U16"} -> Ok(Plain("Int16"))
    [] dtype = "I32" -> Ok(Plain("Int32"))
    [] dtype = "I64" -> Ok(Plain("Int64"))
    [] dtype = "U32" -> Ok(Plain("UInt32"))
    [] dtype = "U64" -> Ok(Plain("UInt64"))
    [] OTHER -> Panic("number type {:?} not yet supported in pco_cli", dtype)

\* NumberType may grow variants this file has no arm for; "Other" stands
\* for any of them and takes the wildcard arm.
to_arrow(dtype) ==
  CASE dtype = "F16" -> Ok(Plain("Float16"))
    [] dtype = "F32" -> Ok(Plain("Float32"))
    [] dtype = "F64" -> Ok(Plain("Float64"))
    [] dtype = "I16" -> Ok(Plain("Int16"))
    [] dtype = "I32" -> Ok(Plain("Int32"))
    [] dtype = "I64" -> Ok(Plain("Int64"))
    [] dtype = "U16" -> Ok(Plain("UInt16"))
    [] dtype = "U32" -> Ok(Plain("UInt32"))
    [] dtype = "U64" -> Ok(Plain("UInt64"))
    [] OTHER -> Panic("number type {:?} not yet supported in pco_cli", dtype)

\* ------------------------------------------------------ canonical kinds
\* The Rust element types this file implements its traits for.
Kinds == {"f16", "f32", "f64", "i16", "i32", "i64", "u16", "u32", "u64"}

\* The NumberType of each element type; the same upper-case name is the
\* NumVec variant that make_num_vec builds for it.
NumberTypeOf(t) ==
  CASE t = "f16" -> "F16"
    [] t = "f32" -> "F32"
    [] t = "f64" -> "F64"
    [] t = "i16" -> "I16"
    [] t = "i32" -> "I32"
    [] t = "i64" -> "I64"
    [] t = "u16" -> "U16"
    [] t = "u32" -> "U32"
    [] t = "u64" -> "U64"

\* any::type_name::<Self>() as path segments; the last one is the type.
type_name(t) == IF t = "f16" THEN <<"half", "binary16", "f16">> ELSE <<t>>

\* ------------------------------------------------------------ sequences
\* All sequences over S of length at most n.
SeqsUpTo(S, n) == UNION {[1 .. k -> S] : k \in 0 .. n}

\* ------------------------------------------------- integer representation
\* The w-bit two's-complement pattern of a signed value, as unsigned words.
SignedToBits(v) ==
  [i \in 1 .. Len(v) |-> IF i = Len(v) /\ v[i] < 0 THEN v[i] + W16 ELSE v[i]]

\* The signed value of a pattern: the top word's high bit weighs -2^(w-1).
BitsToSigned(b) ==
  [i \in 1 .. Len(b) |-> IF i = Len(b) /\ b[i] >= H16 THEN b[i] - W16 ELSE b[i]]

\* An unsigned value's digits are the words of its pattern.
UnsignedToBits(v) == v

BitsToUnsigned(b) == b

\* `x as i32` for x: i16 -- sign extension of the pattern to two words.
I16AsI32(x) ==
  LET b == SignedToBits(x)
  IN  BitsToSigned(<<b[1], IF b[1] >= H16 THEN W16 - 1 ELSE 0>>)

\* Mutant: the u16 is widened through i16, which sign-extends.
U16AsI32SignExtended(x) ==
  BitsToSigned(<<x[1], IF x[1] >= H16 THEN W16 - 1 ELSE 0>>)

\* `x as i32` for x: u16 -- zero extension.
U16AsI32(x) == BitsToSigned(<<UnsignedToBits(x)[1], 0>>)

\* `x as i16` for x: i32 -- the low word of the pattern, read as signed.
I32AsI16(x) == BitsToSigned(<<SignedToBits(x)[1]>>)

\* `x as u16` for x: i32 -- the low word of the pattern.
I32AsU16(x) == BitsToUnsigned(<<SignedToBits(x)[1]>>)

\* Mutant: a value-preserving conversion that saturates at the signed
\* maximum instead of reusing the pattern.
TransmuteSaturating(x) ==
  IF x[Len(x)] >= H16
    THEN [i \in 1 .. Len(x) |-> IF i = Len(x) THEN H16 - 1 ELSE W16 - 1]
    ELSE x

\* mem::transmute between u32 / i32 and u64 / i64 elements: the pattern in
\* memory is untouched, only its reading changes.
TransmuteUnsignedToSigned(x) == BitsToSigned(UnsignedToBits(x))

TransmuteSignedToUnsigned(x) == BitsToUnsigned(SignedToBits(x))

\* ------------------------------------------------------- half precision
\* An f32 pattern from its sign, exponent and mantissa fields.
F32Pack(s, e, m) == <<m % W16, s * H16 + e * 128 + m \div W16>>

F32Sign(w) == w[2] \div H16

F32Exp(w) == (w[2] \div 128) % 256

F32Man(w) == (w[2] % 128) * W16 + w[1]

RECURSIVE BitLen(_)
BitLen(n) == IF n = 0 THEN 0 ELSE 1 + BitLen(n \div 2)

leading_zeros_u16(n) == 16 - BitLen(n)

\* Mutant: subnormals are not normalised, the exponent field is rebiased
\* as for a normal number.
f16_to_f32_no_subnormals(x) ==
  LET i == x[1]
      half_sign == i \div H16
      half_exp == (i \div 1024) % 32
      half_man == i % 1024
  IN  IF i % H16 = 0 THEN <<0, i>>
      ELSE IF half_exp = 31
        THEN IF half_man = 0
               THEN F32Pack(half_sign, 255, 0)
               ELSE F32Pack(half_sign, 255,
                            IF half_man >= 512 THEN half_man * 8192
                            ELSE 4194304 + half_man * 8192)
      ELSE F32Pack(half_sign, half_exp - 15 + 127, half_man * 8192)

\* half::f16::to_f32: IEEE 754 binary16 -> binary32 (always exact).
f16_to_f32(x) ==
  LET i == x[1]
      half_sign == i \div H16
      half_exp == (i \div 1024) % 32
      half_man == i % 1024
  IN  IF i % H16 = 0 THEN <<0, i>>
      ELSE IF half_exp = 31
        THEN IF half_man = 0
               THEN F32Pack(half_sign, 255, 0)
               ELSE F32Pack(half_sign, 255,
                            IF half_man >= 512 THEN half_man * 8192
                            ELSE 4194304 + half_man * 8192)
      ELSE IF half_exp = 0
        THEN LET e == leading_zeros_u16(half_man) - 6
             IN  F32Pack(half_sign, 127 - 15 - e,
                         (half_man * 2 ^ (14 + e)) % 8388608)
      ELSE F32Pack(half_sign, half_exp - 15 + 127, half_man * 8192)

\* (man & round_bit) != 0 && (man & (3 * round_bit - 1)) != 0:
\* round to nearest, ties to even.
RoundsUp(man, round_bit) ==
  /\ (man \div round_bit) % 2 = 1
  /\ \/ man % round_bit # 0
     \/ (man \div (2 * round_bit)) % 2 = 1

\* half::f16::from_f32: IEEE 754 binary32 -> binary16.
f16_from_f32(w) ==
  LET sign == F32Sign(w)
      exp == F32Exp(w)
      man == F32Man(w)
      half_exp == exp - 127 + 15
  IN  IF exp = 255
        THEN <<sign * H16 + 31744
                 + (IF man = 0 THEN 0
                    ELSE IF man \div 8192 >= 512 THEN man \div 8192
                    ELSE 512 + man \div 8192)>>
      ELSE IF half_exp >= 31 THEN <<sign * H16 + 31744>>
      ELSE IF half_exp <= 0
        THEN IF 14 - half_exp > 24 THEN <<sign * H16>>
             ELSE LET full == man + 8388608
                      half_man == full \div 2 ^ (14 - half_exp)
                  IN  <<sign * H16 + half_man
                          + (IF RoundsUp(full, 2 ^ (13 - half_exp)) THEN 1 ELSE 0)>>
      ELSE <<sign * H16 + half_exp * 1024 + man \div 8192
               + (IF RoundsUp(man, 4096) THEN 1 ELSE 0)>>

\* ------------------------------------------------------------ Parquetable
\* Mutant: the u16 impl leaves the flag at the trait's default.
TRANSMUTABLE_u16_default(t) == t \notin {"f16", "i16"}

\* const TRANSMUTABLE: the trait default is true; the 16-bit impls set false.
TRANSMUTABLE(t) == t \notin {"f16", "i16", "u16"}

\* Mutant: the u64 impl keeps the string of the u32 impl it was copied from.
PARQUET_DTYPE_STR_u64_as_u32(t) ==
  CASE t \in {"f32", "f16"} -> "FLOAT"
    [] t = "f64" -> "DOUBLE"
    [] t \in {"i32", "i16", "u16", "u32", "u64"} -> "INT32"
    [] t = "i64" -> "INT64"

PARQUET_DTYPE_STR(t) ==
  CASE t = "f32" -> "FLOAT"
    [] t = "f64" -> "DOUBLE"
    [] t = "i32" -> "INT32"
    [] t = "i64" -> "INT64"
    [] t = "f16" -> "FLOAT"
    [] t = "i16" -> "INT32"
    [] t = "u16" -> "INT32"
    [] t = "u32" -> "INT32"
    [] t = "u64" -> "INT64"

\* type Parquet
ParquetType(t) ==
  CASE t = "f32" -> "FloatType"
    [] t = "f64" -> "DoubleType"
    [] t = "i32" -> "Int32Type"
    [] t = "i64" -> "Int64Type"
    [] t = "f16" -> "FloatType"
    [] t = "i16" -> "Int32Type"
    [] t = "u16" -> "Int32Type"
    [] t = "u32" -> "Int32Type"
    [] t = "u64" -> "Int64Type"

transmute_nums_to_parquet(t, nums) ==
  CASE t \in {"f32", "f64", "i32", "i64"} -> Ok(nums)
    [] t \in {"u32", "u64"} ->
         Ok([i \in 1 .. Len(nums) |-> TransmuteUnsignedToSigned(nums[i])])
    [] OTHER ->
         Panic("transmutation for Parquet {} type has not yet been implemented in Pco CLI",
               type_name(t))

copy_nums_to_parquet(t, nums) ==
  CASE t = "f16" -> Ok([i \in 1 .. Len(nums) |-> f16_to_f32(nums[i])])
    [] t = "i16" -> Ok([i \in 1 .. Len(nums) |-> I16AsI32(nums[i])])
    [] t = "u16" -> Ok([i \in 1 .. Len(nums) |-> U16AsI32(nums[i])])
    [] OTHER ->
         Panic("conversion for Parquet {} type has not yet been implemented in Pco CLI",
               type_name(t))

\* Mutant: the signed identity kinds are decoded with the unsigned impl.
parquet_to_nums_all_unsigned(t, vec) ==
  CASE t \in {"f32", "f64"} -> vec
    [] t = "f16" -> [i \in 1 .. Len(vec) |-> f16_from_f32(vec[i])]
    [] t = "i16" -> [i \in 1 .. Len(vec) |-> I32AsI16(vec[i])]
    [] t = "u16" -> [i \in 1 .. Len(vec) |-> I32AsU16(vec[i])]
    [] t \in {"i32", "i64", "u32", "u64"} ->
         [i \in 1 .. Len(vec) |-> TransmuteSignedToUnsigned(vec[i])]

parquet_to_nums(t, vec) ==
  CASE t \in {"f32", "f64", "i32", "i64"} -> vec
    [] t = "f16" -> [i \in 1 .. Len(vec) |-> f16_from_f32(vec[i])]
    [] t = "i16" -> [i \in 1 .. Len(vec) |-> I32AsI16(vec[i])]
    [] t = "u16" -> [i \in 1 .. Len(vec) |-> I32AsU16(vec[i])]
    [] t \in {"u32", "u64"} ->
         [i \in 1 .. Len(vec) |-> TransmuteSignedToUnsigned(vec[i])]

\* -------------------------------------------------- Arrowable, ArrowNumber
\* Mutant: the u16 instantiation names the I16 variant.
make_num_vec_u16_as_I16(t, nums) ==
  [variant |-> IF t = "u16" THEN "I16" ELSE NumberTypeOf(t), nums |-> nums]

\* NumVec::$name(nums)
make_num_vec(t, nums) == [variant |-> NumberTypeOf(t), nums |-> nums]

\* The Arrow primitive types with an ArrowNumber impl, each with its
\* DATA_TYPE (a Timestamp type's DATA_TYPE has no timezone).
ArrowNumberTypes ==
  {"Float16Type", "Float32Type", "Float64Type", "Int16Type", "Int32Type",
   "Int64Type", "UInt16Type", "UInt32Type", "UInt64Type",
   "TimestampSecondType", "TimestampMillisecondType",
   "TimestampMicrosecondType", "TimestampNanosecondType",
   "Date32Type", "Date64Type"}

DATA_TYPE(p) ==
  CASE p = "Float16Type" -> Plain("Float16")
    [] p = "Float32Type" -> Plain("Float32")
    [] p = "Float64Type" -> Plain("Float64")
    [] p = "Int16Type" -> Plain("Int16")
    [] p = "Int32Type" -> Plain("Int32")
    [] p = "Int64Type" -> Plain("Int64")
    [] p = "UInt16Type" -> Plain("UInt16")
    [] p = "UInt32Type" -> Plain("UInt32")
    [] p = "UInt64Type" -> Plain("UInt64")
    [] p = "TimestampSecondType" -> Timestamp("Second", 0)
    [] p = "TimestampMillisecondType" -> Timestamp("Millisecond", 0)
    [] p = "TimestampMicrosecondType" -> Timestamp("Microsecond", 0)
    [] p = "TimestampNanosecondType" -> Timestamp("Nanosecond", 0)
    [] p = "Date32Type" -> Plain("Date32")
    [] p = "Date64Type" -> Plain("Date64")

\* Mutant: Date32Type is registered with i64, like the other temporal types.
Pco_date32_as_i64(p) ==
  CASE p = "Float16Type" -> "f16"
    [] p = "Float32Type" -> "f32"
    [] p = "Float64Type" -> "f64"
    [] p = "Int16Type" -> "i16"
    [] p = "Int32Type" -> "i32"
    [] p = "UInt16Type" -> "u16"
    [] p = "UInt32Type" -> "u32"
    [] p = "UInt64Type" -> "u64"
    [] OTHER -> "i64"

\* type Pco of `impl ArrowNumber for $p`
Pco(p) ==
  CASE p = "Float32Type" -> "f32"
    [] p = "Float64Type" -> "f64"
    [] p = "Int16Type" -> "i16"
    [] p = "Int32Type" -> "i32"
    [] p = "Int64Type" -> "i64"
    [] p = "UInt16Type" -> "u16"
    [] p = "UInt32Type" -> "u32"
    [] p = "UInt64Type" -> "u64"
    [] p = "Float16Type" -> "f16"
    [] p = "TimestampSecondType" -> "i64"
    [] p = "TimestampMillisecondType" -> "i64"
    [] p = "TimestampMicrosecondType" -> "i64"
    [] p = "TimestampNanosecondType" -> "i64"
    [] p = "Date32Type" -> "i32"
    [] p = "Date64Type" -> "i64"

\* type Arrow of `impl Arrowable for $t`
Arrow(t) ==
  CASE t = "f16" -> "Float16Type"
    [] t = "f32" -> "Float32Type"
    [] t = "f64" -> "Float64Type"
    [] t = "i16" -> "Int16Type"
    [] t = "i32" -> "Int32Type"
    [] t = "i64" -> "Int64Type"
    [] t = "u16" -> "UInt16Type"
    [] t = "u32" -> "UInt32Type"
    [] t = "u64" -> "UInt64Type"

\* const ARROW_DTYPE = <$p as ArrowPrimitiveType>::DATA_TYPE
ARROW_DTYPE(t) == DATA_TYPE(Arrow(t))

\* native_vec_to_pco: the native vector is the Pco vector.
native_vec_to_pco(p, native) == native

\* ------------------------------------------------------------ input data
\* Element values the buffers are drawn from: the extremes of each type,
\* values with the sign bit set, and for floats zeros, one, subnormals,
\* infinities and NaNs.
Values(t) ==
  CASE t = "f16" -> {<<0>>, <<32768>>, <<15360>>, <<1024>>, <<1>>, <<31743>>,
                      <<64512>>, <<32000>>}
    [] t = "f32" -> {<<0, 0>>, <<0, 32768>>, <<0, 16256>>, <<1, 32704>>,
                      <<65535, 65535>>}
    [] t = "f64" -> {<<0, 0, 0, 0>>, <<0, 0, 0, 32768>>, <<0, 0, 0, 16368>>,
                      <<65535, 65535, 65535, 65535>>}
    [] t = "i16" -> {<<-32768>>, <<-1>>, <<0>>, <<1>>, <<32767>>}
    [] t = "u16" -> {<<0>>, <<1>>, <<32768>>, <<65535>>}
    [] t = "i32" -> {<<0, 0>>, <<1, 0>>, <<65535, -1>>, <<0, -32768>>,
                      <<65535, 32767>>}
    [] t = "u32" -> {<<0, 0>>, <<1, 0>>, <<65535, 32767>>, <<0, 32768>>,
                      <<65535, 65535>>}
    [] t = "i64" -> {<<0, 0, 0, 0>>, <<1, 0, 0, 0>>, <<65535, 65535, 65535, -1>>,
                      <<0, 0, 0, -32768>>, <<65535, 65535, 65535, 32767>>}
    [] t = "u64" -> {<<0, 0, 0, 0>>, <<1, 0, 0, 0>>, <<65535, 65535, 65535, 32767>>,
                      <<0, 0, 0, 32768>>, <<65535, 65535, 65535, 65535>>}

\* Element values of a Parquet column read from a file, per physical type.
\* They need not come from this program's encoders.
SlotValues(pq) ==
  CASE pq = "FloatType" ->
         {<<0, 16256>>, <<4096, 16256>>, <<12288, 16256>>, <<4097, 16256>>,
          <<0, 18560>>, <<0, 13184>>, <<0, 13056>>, <<1, 13056>>,
          <<1, 32640>>, <<0, 65408>>}
    [] pq = "DoubleType" -> Values("f64")
    [] pq = "Int32Type" ->
         {<<0, 0>>, <<65535, -1>>, <<32768, 0>>, <<65535, 0>>, <<5, 1>>,
          <<32768, -1>>, <<0, -32768>>, <<65535, 32767>>}
    [] pq = "Int64Type" -> Values("i64")

\* --------------------------------------------------------------- state
VARIABLES
  dtype,     \* the Arrow descriptor of the incoming column
  resolved,  \* from_arrow(dtype), once called
  back,      \* to_arrow(resolved), once called
  kind,      \* the element type the column was dispatched to, or "none"
  rendered,  \* to_arrow of the kind's NumberType, once called
  roundtrip, \* from_arrow(rendered), once called
  loaded,    \* whether nums holds the column's canonical buffer
  nums,      \* the canonical buffer, Vec<kind>
  via,       \* how the Parquet column came about: transmute, copy or file
  parq,      \* the Parquet column, Vec<<kind as Parquetable>::Parquet::T>;
             \* meaningful once via is set and no panic occurred
  decoded,   \* parquet_to_nums(parq), once called
  panic,     \* the panic that aborted the process, if any
  vec        \* the NumVec built by make_num_vec, with the buffer it took

mapVars == <<resolved, back, rendered, roundtrip>>

bufVars == <<loaded, nums, via, parq, decoded, panic, vec>>

vars == <<dtype, kind, mapVars, bufVars>>

Fresh ==
  /\ resolved = None
  /\ back = None
  /\ kind = "none"
  /\ rendered = None
  /\ roundtrip = None
  /\ loaded = FALSE
  /\ nums = <<>>
  /\ via = "none"
  /\ parq = <<>>
  /\ decoded = None
  /\ panic = None
  /\ vec = None

Init == dtype \in ArrowDataTypes /\ Fresh

Running == panic = None

\* A Parquet column exists once an encoder returned or a file was read.
HasParquet == via # "none" /\ panic = None

\* from_arrow(&dtype)
FromArrow ==
  /\ Running
  /\ resolved = None
  /\ resolved' = from_arrow(dtype)
  /\ UNCHANGED <<dtype, kind, back, rendered, roundtrip, bufVars>>

\* to_arrow(from_arrow(&dtype)?)
ToArrowOfResolved ==
  /\ Running
  /\ resolved # None
  /\ resolved.ok
  /\ back = None
  /\ back' = to_arrow(resolved.val)
  /\ UNCHANGED <<dtype, kind, resolved, rendered, roundtrip, bufVars>>

\* The column's primitive type P selects the code instantiated for
\* <P as ArrowNumber>::Pco.
Dispatch ==
  /\ Running
  /\ kind = "none"
  /\ \E p \in ArrowNumberTypes :
       /\ DATA_TYPE(p).tag = dtype.tag
       /\ DATA_TYPE(p).unit = dtype.unit
       /\ kind' = Pco(p)
  /\ UNCHANGED <<dtype, mapVars, bufVars>>

\* to_arrow(T::NUMBER_TYPE)
ToArrow ==
  /\ Running
  /\ kind # "none"
  /\ rendered = None
  /\ rendered' = to_arrow(NumberTypeOf(kind))
  /\ UNCHANGED <<dtype, kind, resolved, back, roundtrip, bufVars>>

\* from_arrow(&to_arrow(T::NUMBER_TYPE))
FromArrowOfRendered ==
  /\ Running
  /\ rendered # None
  /\ rendered.ok
  /\ roundtrip = None
  /\ roundtrip' = from_arrow(rendered.val)
  /\ UNCHANGED <<dtype, kind, resolved, back, rendered, bufVars>>

\* <P as ArrowNumber>::native_vec_to_pco(native): the column's values
\* become the canonical buffer.
NativeVecToPco ==
  /\ Running
  /\ kind # "none"
  /\ ~loaded
  /\ via = "none"
  /\ \E p \in ArrowNumberTypes :
       /\ DATA_TYPE(p).tag = dtype.tag
       /\ DATA_TYPE(p).unit = dtype.unit
       /\ \E native \in SeqsUpTo(Values(Pco(p)), MaxLen) :
            nums' = native_vec_to_pco(p, native)
  /\ loaded' = TRUE
  /\ UNCHANGED <<dtype, kind, mapVars, via, parq, decoded, panic, vec>>

\* T::transmute_nums_to_parquet(&nums)
TransmuteNumsToParquet ==
  /\ Running
  /\ loaded
  /\ via = "none"
  /\ via' = "transmute"
  /\ LET r == transmute_nums_to_parquet(kind, nums)
     IN  IF r.ok THEN parq' = r.val /\ panic' = panic
         ELSE parq' = parq /\ panic' = r
  /\ UNCHANGED <<dtype, kind, mapVars, loaded, nums, decoded, vec>>

\* T::copy_nums_to_parquet(&nums)
CopyNumsToParquet ==
  /\ Running
  /\ loaded
  /\ via = "none"
  /\ via' = "copy"
  /\ LET r == copy_nums_to_parquet(kind, nums)
     IN  IF r.ok THEN parq' = r.val /\ panic' = panic
         ELSE parq' = parq /\ panic' = r
  /\ UNCHANGED <<dtype, kind, mapVars, loaded, nums, decoded, vec>>

\* Instead of an Arrow array, a Parquet column of the kind's physical
\* type is read from a file.
ReadParquet ==
  /\ Running
  /\ kind # "none"
  /\ ~loaded
  /\ via = "none"
  /\ via' = "file"
  /\ parq' \in SeqsUpTo(SlotValues(ParquetType(kind)), MaxLen)
  /\ UNCHANGED <<dtype, kind, mapVars, loaded, nums, decoded, panic, vec>>

\* T::parquet_to_nums(parq)
ParquetToNums ==
  /\ Running
  /\ HasParquet
  /\ decoded = None
  /\ decoded' = Some(parquet_to_nums(kind, parq))
  /\ UNCHANGED <<dtype, kind, mapVars, loaded, nums, via, parq, panic, vec>>

\* T::make_num_vec(buffer), on the canonical or the decoded buffer
MakeNumVec ==
  /\ Running
  /\ vec = None
  /\ \E from \in {"nums", "decoded"} :
       /\ from = "nums" => loaded
       /\ from = "decoded" => decoded # None
       /\ vec' = [built |-> make_num_vec(kind, IF from = "nums" THEN nums
                                                ELSE decoded.some),
                  from |-> from]
  /\ UNCHANGED <<dtype, kind, mapVars, loaded, nums, via, parq, decoded, panic>>

\* The conversions of a column's buffers.
Next ==
  \/ FromArrow
  \/ Dispatch
  \/ NativeVecToPco
  \/ TransmuteNumsToParquet
  \/ CopyNumsToParquet
  \/ ReadParquet
  \/ ParquetToNums
  \/ MakeNumVec

Spec == Init /\ [][Next]_vars

\* The mappings between Arrow descriptors and number types.
NextArrow ==
  \/ FromArrow
  \/ ToArrowOfResolved
  \/ Dispatch
  \/ ToArrow
  \/ FromArrowOfRendered

SpecArrow == Init /\ [][NextArrow]_vars

TypeOK ==
  /\ dtype \in ArrowDataTypes
  /\ kind \in Kinds \cup {"none"}
  /\ via \in {"none", "transmute", "copy", "file"}
  /\ loaded \in BOOLEAN
  /\ Len(nums) <= MaxLen

\* Every f16 bit pattern, as a one-element buffer already dispatched and
\* loaded, taken through the copying encoder and the decoder.
InitF16 ==
  /\ dtype = Plain("Float16")
  /\ resolved = None
  /\ back = None
  /\ kind = "f16"
  /\ rendered = None
  /\ roundtrip = None
  /\ loaded = TRUE
  /\ \E i \in 0 .. W16 - 1 : nums = <<<<i>>>>
  /\ via = "none"
  /\ parq = <<>>
  /\ decoded = None
  /\ panic = None
  /\ vec = None

NextF16 ==
  \/ CopyNumsToParquet
  \/ ParquetToNums

SpecF16 == InitF16 /\ [][NextF16]_vars

\* ================================================================ claims
Idx(s) == 1 .. Len(s)

\* The integer an i32 in digits stands for.
I32Value(x) == x[1] + W16 * x[2]

IsNaN16(x) == (x[1] \div 1024) % 32 = 31 /\ x[1] % 1024 # 0

\* C1: for u32 and u64, transmute_nums_to_parquet maps every unsigned value
\* to the signed value with the same bit pattern (v below 2^(w-1) stays v,
\* otherwise it becomes v - 2^w, i.e. the top digit drops by 2^16), and
\* parquet_to_nums of the result is the original sequence.
C1_UnsignedTransmute ==
  (kind \in {"u32", "u64"} /\ via = "transmute") =>
    /\ panic = None
    /\ Len(parq) = Len(nums)
    /\ \A i \in Idx(nums) :
         LET w == Len(nums[i])
         IN  /\ Len(parq[i]) = w
             /\ \A j \in 1 .. w - 1 : parq[i][j] = nums[i][j]
             /\ parq[i][w] = IF nums[i][w] < H16 THEN nums[i][w]
                             ELSE nums[i][w] - W16
             /\ parq[i][w] \in -H16 .. H16 - 1
    /\ decoded # None => decoded.some = nums

\* u32 4294967295 and 2147483648 became -1 and -2147483648 and came back.
C1_Witness ==
  /\ kind = "u32"
  /\ via = "transmute"
  /\ nums = <<<<65535, 65535>>, <<0, 32768>>>>
  /\ I32Value(parq[1]) = -1
  /\ decoded = Some(nums)

\* C2: for i16 and u16, copy_nums_to_parquet yields the 32-bit signed value
\* numerically equal to the input, parquet_to_nums keeps the low 16 bits of
\* each slot value, and decode after encode is the original sequence.
C2_WideningCopy ==
  kind \in {"i16", "u16"} =>
    /\ via = "copy" =>
         /\ panic = None
         /\ Len(parq) = Len(nums)
         /\ \A i \in Idx(nums) :
              Len(parq[i]) = 2 /\ I32Value(parq[i]) = nums[i][1]
         /\ decoded # None => decoded.some = nums
    /\ (via \in {"copy", "file"} /\ decoded # None) =>
         /\ Len(decoded.some) = Len(parq)
         /\ \A i \in Idx(parq) :
              /\ decoded.some[i][1] % W16 = I32Value(parq[i]) % W16
              /\ decoded.some[i][1] \in
                   (IF kind = "i16" THEN -H16 .. H16 - 1 ELSE 0 .. W16 - 1)

\* u16 65535 was encoded to 65535, not -1, and decoded again.
C2_Witness ==
  /\ kind = "u16"
  /\ via = "copy"
  /\ nums = <<<<65535>>, <<0>>>>
  /\ I32Value(parq[1]) = 65535
  /\ decoded = Some(nums)

\* C3: for f32, f64, i32 and i64, transmute_nums_to_parquet and
\* parquet_to_nums are the identity on the sequence, so decoding the
\* encoded buffer gives the original buffer, element for element.
C3_IdentityKinds ==
  kind \in {"f32", "f64", "i32", "i64"} =>
    /\ via = "transmute" =>
         /\ panic = None
         /\ parq = nums
         /\ decoded # None => decoded.some = nums
    /\ (via = "file" /\ decoded # None) => decoded.some = parq

\* An i32 buffer holding i32::MIN went through both directions.
C3_Witness ==
  /\ kind = "i32"
  /\ via = "transmute"
  /\ Len(nums) = 2
  /\ nums[1] = <<0, -32768>>
  /\ decoded = Some(nums)

\* The kind the documentation gives for each supported descriptor.
DocumentedKind(d) ==
  CASE d.tag = "Float16" -> "F16"
    [] d.tag = "Float32" -> "F32"
    [] d.tag = "Float64" -> "F64"
    [] d.tag = "Int16" -> "I16"
    [] d.tag = "Int32" -> "I32"
    [] d.tag = "Int64" -> "I64"
    [] d.tag = "UInt16" -> "U16"
    [] d.tag = "UInt32" -> "U32"
    [] d.tag = "UInt64" -> "U64"
    [] d.tag = "Timestamp" -> "I64"
    [] d.tag = "Date64" -> "I64"
    [] d.tag = "Date32" -> "I32"

SupportedTags == PlainTags \cup {"Timestamp", "Date32", "Date64"}

\* C4: from_arrow never panics; a supported descriptor resolves to its
\* documented kind (every Timestamp and Date64 to I64, Date32 to I32), any
\* other descriptor to an error value that carries the descriptor.
C4_FromArrowTotal ==
  resolved # None =>
    IF dtype.tag \in SupportedTags
      THEN resolved = Ok(DocumentedKind(dtype))
      ELSE /\ ~resolved.ok
           /\ ~resolved.panicked
           /\ resolved.arg = dtype

\* A nanosecond timestamp with a timezone resolved to I64.
C4_Witness ==
  /\ dtype = Timestamp("Nanosecond", 1)
  /\ resolved = Ok("I64")

\* C5: TRANSMUTABLE is true for exactly f32, f64, i32, i64, u32, u64; the
\* encoder the flag names never panics; transmute_nums_to_parquet on a kind
\* whose flag is false panics, naming the kind, and yields no column.
C5_TransmutableFlag ==
  kind # "none" =>
    /\ TRANSMUTABLE(kind) <=> kind \in {"f32", "f64", "i32", "i64", "u32", "u64"}
    /\ ~TRANSMUTABLE(kind) <=> kind \in {"i16", "u16", "f16"}
    /\ (via = "transmute" /\ TRANSMUTABLE(kind)) => panic = None
    /\ (via = "copy" /\ ~TRANSMUTABLE(kind)) => panic = None
    /\ (via = "transmute" /\ ~TRANSMUTABLE(kind)) =>
         /\ panic # None
         /\ panic.panicked
         /\ panic.arg[Len(panic.arg)] = kind
         /\ parq = <<>>
         /\ decoded = None

\* transmute_nums_to_parquet was called on a non-empty i16 buffer.
C5_Witness ==
  /\ kind = "i16"
  /\ via = "transmute"
  /\ Len(nums) = 2
  /\ panic # None

\* Width in 16-bit words of the elements a Parquet logical type holds.
WordsOfLogical(str) == IF str \in {"FLOAT", "INT32"} THEN 2 ELSE 4

\* C6: PARQUET_DTYPE_STR is FLOAT, DOUBLE, INT32, INT64, INT32, INT64,
\* INT32, INT32, FLOAT for f32, f64, i32, i64, u32, u64, i16, u16, f16, and
\* names the width and class of the kind's Parquet element type.
C6_ParquetDtypeStr ==
  HasParquet =>
    /\ PARQUET_DTYPE_STR(kind) =
         (CASE kind = "f32" -> "FLOAT"
            [] kind = "f64" -> "DOUBLE"
            [] kind = "i32" -> "INT32"
            [] kind = "i64" -> "INT64"
            [] kind = "u32" -> "INT32"
            [] kind = "u64" -> "INT64"
            [] kind = "i16" -> "INT32"
            [] kind = "u16" -> "INT32"
            [] kind = "f16" -> "FLOAT")
    /\ ParquetType(kind) =
         (CASE PARQUET_DTYPE_STR(kind) = "FLOAT" -> "FloatType"
            [] PARQUET_DTYPE_STR(kind) = "DOUBLE" -> "DoubleType"
            [] PARQUET_DTYPE_STR(kind) = "INT32" -> "Int32Type"
            [] PARQUET_DTYPE_STR(kind) = "INT64" -> "Int64Type")
    /\ \A i \in Idx(parq) : Len(parq[i]) = WordsOfLogical(PARQUET_DTYPE_STR(kind))

\* A u64 buffer was encoded into a column of 64-bit slots.
C6_Witness ==
  /\ kind = "u64"
  /\ via = "transmute"
  /\ HasParquet
  /\ Len(parq) = 2
  /\ PARQUET_DTYPE_STR(kind) = "INT64"

\* C7: for f16, copy_nums_to_parquet followed by parquet_to_nums gives back
\* the identical 16-bit pattern of every value that is not a NaN.
C7_HalfRoundTrip ==
  (kind = "f16" /\ via = "copy") =>
    /\ panic = None
    /\ Len(parq) = Len(nums)
    /\ decoded # None =>
         /\ Len(decoded.some) = Len(nums)
         /\ \A i \in Idx(nums) : ~IsNaN16(nums[i]) => decoded.some[i] = nums[i]

\* The largest subnormal, 0x03FF, went to f32 0x387FC000 and came back.
C7_Witness ==
  /\ kind = "f16"
  /\ via = "copy"
  /\ nums = <<<<1023>>>>
  /\ parq = <<<<49152, 14463>>>>
  /\ decoded = Some(nums)

\* The NumVec variant the documentation gives for each element type.
DocumentedVariant(t) ==
  CASE t = "f16" -> "F16"
    [] t = "f32" -> "F32"
    [] t = "f64" -> "F64"
    [] t = "i16" -> "I16"
    [] t = "i32" -> "I32"
    [] t = "i64" -> "I64"
    [] t = "u16" -> "U16"
    [] t = "u32" -> "U32"
    [] t = "u64" -> "U64"

VecAgrees ==
  vec # None =>
    /\ vec.built.variant = DocumentedVariant(kind)
    /\ vec.built.nums = IF vec.from = "nums" THEN nums ELSE decoded.some

\* C8: make_num_vec on a buffer of kind K builds the variant K holding the
\* same elements, and no later step changes a vector once constructed.
C8_NumVecDiscriminant ==
  /\ []VecAgrees
  /\ [][vec # None => vec' = vec]_vars

\* A u16 buffer that was encoded and decoded was wrapped as NumVec::U16.
C8_Witness ==
  /\ kind = "u16"
  /\ vec # None
  /\ vec.from = "decoded"
  /\ vec.built.variant = "U16"
  /\ Len(vec.built.nums) = 2
  /\ resolved # None

TemporalTags == {"Timestamp", "Date32", "Date64"}

\* C9: to_arrow returns, without panicking, a descriptor no other kind
\* shares; from_arrow(to_arrow(k)) = Ok(k); and to_arrow(from_arrow(d))
\* differs from d for every Timestamp, Date32 and Date64 descriptor d.
C9_ToArrowInverse ==
  /\ rendered # None =>
       /\ rendered.ok
       /\ rendered.val.tag \in PlainTags
       /\ \A t \in Kinds \ {kind} : to_arrow(NumberTypeOf(t)) # rendered
  /\ roundtrip # None => roundtrip = Ok(DocumentedVariant(kind))
  /\ (back # None /\ dtype.tag \in TemporalTags) =>
       back.ok /\ back.val # dtype

\* Date32 resolved and rendered back as Int32, which resolves to I32.
C9_Witness ==
  /\ dtype = Plain("Date32")
  /\ back = Ok(Plain("Int32"))
  /\ kind = "i32"
  /\ rendered = Ok(Plain("Int32"))
  /\ roundtrip = Ok("I32")

\* C10: for every Arrow primitive type P with an ArrowNumber impl, the
\* NumberType of P::Pco is from_arrow(P::DATA_TYPE); and for every kind K,
\* K::ARROW_DTYPE is to_arrow(K).
C10_StaticDynamicAgree ==
  kind # "none" =>
    /\ resolved # None => resolved = Ok(DocumentedVariant(kind))
    /\ rendered # None => rendered = Ok(ARROW_DTYPE(kind))

\* TimestampMicrosecondType was dispatched to i64 and resolved to I64.
C10_Witness ==
  /\ dtype = Timestamp("Microsecond", 0)
  /\ kind = "i64"
  /\ resolved = Ok("I64")
  /\ rendered = Ok(Plain("Int64"))

====
